---- MODULE Spec2Model ----
(***************************************************************************)
(* A model of relychan/gohttps:                                            *)
(*   - middlewares.Decompress    (request body decompression)              *)
(*   - middlewares.MaxBodySize and gohttps.MaxBodySizeMiddleware           *)
(*     (request body size guard)                                           *)
(*   - gohttps.NewRouter, CreatePrometheusServer and ListenAndServe        *)
(*     (server bootstrap, listeners and shutdown)                          *)
(* A header value is a sequence of one-character strings, a body is a      *)
(* sequence of bytes (short strings), so that normalisation and decoding   *)
(* are computed, not assumed.                                              *)
(***************************************************************************)
EXTENDS Integers, Sequences, FiniteSets, TLC

VARIABLES
    pc,        \* position of the request: "received" | "served"
    req,       \* the inbound *http.Request (the fields the middlewares read)
    cfg,       \* the middleware's construction argument(s)
    resp,      \* what the middleware itself wrote to the http.ResponseWriter
    handler,   \* what the handler observed: next of a middleware, or the
               \* caller of DecodeRequestBody
    log,       \* what the middleware did with the body on the way
    envVars,   \* the ServerConfig handed to NewRouter and ListenAndServe
    environ,   \* the process environment read by os.Getenv
    router,    \* the *chi.Mux: installed middlewares and registered routes
    co,        \* position of the goroutine that runs NewRouter and ListenAndServe
    selected,  \* the case the select of ListenAndServe took
    promServer, \* the metrics *http.Server of ListenAndServe, or nil
    listeners, \* per listener ("main", "prom"): its goroutine and its http.Server
    serverErr, \* the buffered channel serverErr
    ctxDone,   \* whether the governing context is cancelled
    ret,       \* the error ListenAndServe returns
    warnings   \* what was logged with slog.Warn

requestVars == <<pc, req, cfg, resp, handler, log>>
serverVars == <<envVars, environ, router, co, selected, promServer, listeners,
                serverErr, ctxDone, ret, warnings>>
vars == <<pc, req, cfg, resp, handler, log, envVars, environ, router, co, selected,
          promServer, listeners, serverErr, ctxDone, ret, warnings>>

(***************************************************************************)
(* Bounds of the model.                                                    *)
(***************************************************************************)
MaxPayload == 2      \* longest payload that is compressed into a body
MaxEncodings == 2    \* most Content-Encoding header values of a request
MaxKB == 2           \* largest configured body limit, in kilobytes

(***************************************************************************)
(* Strings: strings.ToLower and strings.TrimSpace on character sequences.  *)
(***************************************************************************)
UpperChars == <<"A","B","C","D","E","F","G","H","I","J","K","L","M",
                "N","O","P","Q","R","S","T","U","V","W","X","Y","Z">>
LowerChars == <<"a","b","c","d","e","f","g","h","i","j","k","l","m",
                "n","o","p","q","r","s","t","u","v","w","x","y","z">>

ToLowerChar(c) ==
    IF \E i \in 1..Len(UpperChars) : UpperChars[i] = c
    THEN LowerChars[CHOOSE i \in 1..Len(UpperChars) : UpperChars[i] = c]
    ELSE c

ToLower(s) == [i \in 1..Len(s) |-> ToLowerChar(s[i])]

IsSpace(c) == c \in {" ", "\t", "\n", "\r"}

RECURSIVE TrimLeft(_)
TrimLeft(s) ==
    IF s # <<>> /\ IsSpace(Head(s)) THEN TrimLeft(Tail(s)) ELSE s

RECURSIVE TrimRight(_)
TrimRight(s) ==
    IF s # <<>> /\ IsSpace(s[Len(s)]) THEN TrimRight(SubSeq(s, 1, Len(s) - 1)) ELSE s

TrimSpace(s) == TrimRight(TrimLeft(s))

\* trimmedEncoding := strings.TrimSpace(strings.ToLower(encoding))
TrimmedEncoding(encoding) == TrimSpace(ToLower(encoding))

(***************************************************************************)
(* Encoding tokens.                                                        *)
(***************************************************************************)
EncGzip == <<"g","z","i","p">>
EncDeflate == <<"d","e","f","l","a","t","e">>
EncZstd == <<"z","s","t","d">>

SupportedEncodings == {EncGzip, EncDeflate, EncZstd}

\* gocompress.DefaultCompressor.IsEncodingSupported
IsEncodingSupported(encoding) == encoding \in SupportedEncodings

(***************************************************************************)
(* The codecs behind gocompress.DefaultCompressor.  A compressed stream is *)
(* a sequence of bytes in a small concrete framing per encoding:           *)
(*   deflate : one literal code per payload byte, then an end-of-block     *)
(*   gzip    : two magic bytes, a deflate stream, a checksum byte          *)
(*   zstd    : two magic bytes, one block code per payload byte, an end    *)
(* Decoders are streaming: constructing one reads at most the header, the  *)
(* rest of the stream is decoded while the consumer reads.                 *)
(***************************************************************************)
PayloadBytes == {"a", "b"}

ErrHeader == "gzip: invalid header"
ErrChecksum == "gzip: invalid checksum"
ErrCorrupt == "flate: corrupt input"
ErrZstdMagic == "invalid input: magic number mismatch"
ErrZstdCorrupt == "corrupted input"
ErrUnexpectedEOF == "unexpected EOF"
ErrEOF == "EOF"
ErrTransport == "connection reset by peer"
NoErr == ""

GzipMagic == <<"1f", "8b">>
ZstdMagic == <<"28", "b5">>

Literal(b) == IF b = "a" THEN "la" ELSE "lb"
UnLiteral(c) == IF c = "la" THEN "a" ELSE "b"
ZBlock(b) == IF b = "a" THEN "za" ELSE "zb"
UnZBlock(c) == IF c = "za" THEN "a" ELSE "b"

Weight(b) == IF b = "a" THEN 1 ELSE 2

RECURSIVE ByteSum(_)
ByteSum(p) == IF p = <<>> THEN 0 ELSE Weight(Head(p)) + ByteSum(Tail(p))

CrcBytes == <<"c0", "c1", "c2", "c3">>
Crc(p) == CrcBytes[(ByteSum(p) % Len(CrcBytes)) + 1]

FlateEncode(p) == [i \in 1..Len(p) |-> Literal(p[i])] \o <<"eob">>
GzipEncode(p) == GzipMagic \o FlateEncode(p) \o <<Crc(p)>>
ZstdEncode(p) == ZstdMagic \o [i \in 1..Len(p) |-> ZBlock(p[i])] \o <<"zend">>

\* The writer side of the codecs (what a client does to build a body).
Encode(enc, p) ==
    CASE enc = EncGzip -> GzipEncode(p)
      [] enc = EncDeflate -> FlateEncode(p)
      [] enc = EncZstd -> ZstdEncode(p)

(***************************************************************************)
(* A byte source is [bytes, off, fail]: the bytes still to come start at   *)
(* off + 1; after the last byte the source reports io.EOF, or a transport  *)
(* error when fail is set.                                                 *)
(***************************************************************************)
Source(bytes, fail) == [bytes |-> bytes, off |-> 0, fail |-> fail]

SrcEndErr(src) == IF src.fail THEN ErrTransport ELSE ErrUnexpectedEOF

\* io.ReadAll on the undecoded source
ReadAllSource(src) ==
    [data |-> SubSeq(src.bytes, src.off + 1, Len(src.bytes)),
     err |-> IF src.fail THEN ErrTransport ELSE NoErr]

\* flate reader: decode literals up to the end-of-block code, starting after
\* byte i; next is the offset consumed when the stream ended cleanly.
RECURSIVE FlateRead(_, _, _)
FlateRead(src, i, out) ==
    IF i >= Len(src.bytes) THEN [data |-> out, err |-> SrcEndErr(src), next |-> i]
    ELSE LET c == src.bytes[i + 1] IN
         IF c = "eob" THEN [data |-> out, err |-> NoErr, next |-> i + 1]
         ELSE IF c \in {"la", "lb"} THEN FlateRead(src, i + 1, Append(out, UnLiteral(c)))
         ELSE [data |-> out, err |-> ErrCorrupt, next |-> i]

\* gzip.Reader.readHeader at offset i: the error of the header check.
GzipHeaderErr(src, i) ==
    LET have == Len(src.bytes) - i IN
    IF have < Len(GzipMagic)
    THEN (IF src.fail THEN ErrTransport
          ELSE IF have = 0 THEN ErrEOF ELSE ErrUnexpectedEOF)
    ELSE IF SubSeq(src.bytes, i + 1, i + Len(GzipMagic)) # GzipMagic THEN ErrHeader
    ELSE NoErr

\* gzip reader after a good header at offset i (multistream: a further member
\* may follow the checksum).
RECURSIVE GzipRead(_, _, _)
GzipRead(src, i, out) ==
    LET f == FlateRead(src, i + Len(GzipMagic), <<>>) IN
    IF f.err # NoErr THEN [data |-> out \o f.data, err |-> f.err]
    ELSE IF f.next >= Len(src.bytes)
         THEN [data |-> out \o f.data, err |-> SrcEndErr(src)]
    ELSE IF src.bytes[f.next + 1] # Crc(f.data)
         THEN [data |-> out \o f.data, err |-> ErrChecksum]
    ELSE LET h == GzipHeaderErr(src, f.next + 1) IN
         IF h = ErrEOF THEN [data |-> out \o f.data, err |-> NoErr]
         ELSE IF h # NoErr THEN [data |-> out \o f.data, err |-> h]
         ELSE GzipRead(src, f.next + 1, out \o f.data)

RECURSIVE ZstdBlocks(_, _, _)
ZstdBlocks(src, i, out) ==
    IF i >= Len(src.bytes) THEN [data |-> out, err |-> SrcEndErr(src)]
    ELSE LET c == src.bytes[i + 1] IN
         IF c = "zend" THEN [data |-> out, err |-> NoErr]
         ELSE IF c \in {"za", "zb"} THEN ZstdBlocks(src, i + 1, Append(out, UnZBlock(c)))
         ELSE [data |-> out, err |-> ErrZstdCorrupt]

\* zstd reader: the frame magic is checked on the first read.
ZstdRead(src) ==
    LET have == Len(src.bytes) - src.off IN
    IF have = 0 THEN [data |-> <<>>, err |-> IF src.fail THEN ErrTransport ELSE NoErr]
    ELSE IF have < Len(ZstdMagic) THEN [data |-> <<>>, err |-> SrcEndErr(src)]
    ELSE IF SubSeq(src.bytes, src.off + 1, src.off + Len(ZstdMagic)) # ZstdMagic
         THEN [data |-> <<>>, err |-> ErrZstdMagic]
    ELSE ZstdBlocks(src, src.off + Len(ZstdMagic), <<>>)

(***************************************************************************)
(* Readers: what r.Body can be.                                            *)
(***************************************************************************)
NilBody == [kind |-> "nil"]
NoBody == [kind |-> "NoBody"]
RawBody(src) == [kind |-> "raw", src |-> src]
DecoderBody(enc, src) == [kind |-> "decoder", enc |-> enc, src |-> src]

\* gocompress.DefaultCompressor.Decompress(reader, encoding): the decoder's
\* constructor.  Returns [err, body, src]; src is the source as the
\* constructor left it (the gzip constructor consumes the header).
CompressorDecompress(src, enc) ==
    IF enc = EncGzip
    THEN LET h == GzipHeaderErr(src, src.off)
             used == IF Len(src.bytes) - src.off < Len(GzipMagic)
                     THEN Len(src.bytes) ELSE src.off + Len(GzipMagic)
             after == [src EXCEPT !.off = used] IN
         IF h # NoErr THEN [err |-> h, body |-> NilBody, src |-> after]
         ELSE [err |-> NoErr, body |-> DecoderBody(enc, src), src |-> after]
    ELSE [err |-> NoErr, body |-> DecoderBody(enc, src), src |-> src]

\* A body of n bytes whose content no middleware looks at.
SizedBody(n) == [kind |-> "sized", len |-> n]

\* http.MaxBytesReader(w, body, n)
MaxBytesReader(body, n) == [kind |-> "maxbytes", inner |-> body, n |-> n]

ErrTooLarge == "http: request body too large"

\* The bytes of a stream read to its end: [n, data, err].  data is left empty
\* for a sized body.
Read(data, err) == [n |-> Len(data), data |-> data, err |-> err]

\* io.ReadAll(r.Body) as the downstream handler does it.
RECURSIVE ReadAll(_)
ReadAll(body) ==
    CASE body.kind \in {"nil", "NoBody"} -> Read(<<>>, NoErr)
      [] body.kind = "raw" ->
           LET s == ReadAllSource(body.src) IN Read(s.data, s.err)
      [] body.kind = "decoder" ->
           (CASE body.enc = EncGzip ->
                   LET g == GzipRead(body.src, body.src.off, <<>>) IN Read(g.data, g.err)
              [] body.enc = EncDeflate ->
                   LET f == FlateRead(body.src, body.src.off, <<>>) IN Read(f.data, f.err)
              [] body.enc = EncZstd ->
                   LET z == ZstdRead(body.src) IN Read(z.data, z.err))
      [] body.kind = "sized" -> [n |-> body.len, data |-> <<>>, err |-> NoErr]
      [] body.kind = "maxbytes" ->
           LET in == ReadAll(body.inner) IN
           IF in.n > body.n
           THEN [n |-> body.n,
                 data |-> SubSeq(in.data, 1, IF Len(in.data) < body.n THEN Len(in.data) ELSE body.n),
                 err |-> ErrTooLarge]
           ELSE in

(***************************************************************************)
(* Responses.                                                              *)
(***************************************************************************)
StatusBadRequest == 400
StatusRequestEntityTooLarge == 413
StatusUnsupportedMediaType == 415

NoResponse == [status |-> 0]

\* httputils.WriteResponseJSON(w, statusCode, body) with a non-nil body
WriteResponseJSON(statusCode, body) ==
    [status |-> statusCode, contentType |-> "application/json", body |-> body]

\* The outcome of one run of a middleware's handler function.
Outcome(calls, body, response, attempts, buffered) ==
    [calls |-> calls, body |-> body, resp |-> response,
     attempts |-> attempts, buffered |-> buffered]

\* next.ServeHTTP(w, r) with r.Body = body
ServeNext(body, attempts, buffered) == Outcome(1, body, NoResponse, attempts, buffered)

\* respondUnsupportedContentEncoding(w, r)
respondUnsupportedContentEncoding(r) ==
    WriteResponseJSON(StatusUnsupportedMediaType,
        [status |-> StatusUnsupportedMediaType,
         detail |-> [text |-> "Content-Encoding %v is unsupported", values |-> r.encodings],
         instance |-> r.path])

\* respondDecompressionError without the assignment of body.Instance.
respondDecompressionErrorNoInstance(r, err) ==
    LET message == IF err # NoErr THEN err ELSE "failed to decompress body" IN
    WriteResponseJSON(StatusBadRequest,
        [status |-> StatusBadRequest,
         detail |-> [text |-> message, values |-> <<>>],
         instance |-> ""])

\* respondDecompressionError(w, r, err); err = NoErr stands for a nil error
respondDecompressionError(r, err) ==
    LET message == IF err # NoErr THEN err ELSE "failed to decompress body" IN
    WriteResponseJSON(StatusBadRequest,
        [status |-> StatusBadRequest,
         detail |-> [text |-> message, values |-> <<>>],
         instance |-> r.path])

(***************************************************************************)
(* middlewares.Decompress                                                  *)
(***************************************************************************)
\* DecompressSingle with the decoded body never assigned to r.Body.
DecompressSingleKeepsBody(r) ==
    LET trimmedEncoding == TrimmedEncoding(r.encodings[1]) IN
    IF ~IsEncodingSupported(trimmedEncoding)
    THEN Outcome(0, NilBody, respondUnsupportedContentEncoding(r), <<>>, 0)
    ELSE LET d == CompressorDecompress(r.body.src, trimmedEncoding)
             tried == <<[enc |-> trimmedEncoding, off |-> r.body.src.off]>> IN
         IF d.err # NoErr
         THEN Outcome(0, NilBody, respondDecompressionError(r, d.err), tried, 0)
         ELSE ServeNext(r.body, tried, 0)

\* DecompressSingle without the return after respondDecompressionError.
DecompressSingleFallsThrough(r) ==
    LET trimmedEncoding == TrimmedEncoding(r.encodings[1]) IN
    IF ~IsEncodingSupported(trimmedEncoding)
    THEN Outcome(0, NilBody, respondUnsupportedContentEncoding(r), <<>>, 0)
    ELSE LET d == CompressorDecompress(r.body.src, trimmedEncoding)
             tried == <<[enc |-> trimmedEncoding, off |-> r.body.src.off]>> IN
         IF d.err # NoErr
         THEN Outcome(1, r.body, respondDecompressionError(r, d.err), tried, 0)
         ELSE ServeNext(d.body, tried, 0)

\* The single-encoding branch: len(requestEncodings) == 1.
DecompressSingle(r) ==
    LET trimmedEncoding == TrimmedEncoding(r.encodings[1]) IN
    IF ~IsEncodingSupported(trimmedEncoding)
    THEN Outcome(0, NilBody, respondUnsupportedContentEncoding(r), <<>>, 0)
    ELSE LET d == CompressorDecompress(r.body.src, trimmedEncoding)
             tried == <<[enc |-> trimmedEncoding, off |-> r.body.src.off]>> IN
         IF d.err # NoErr
         THEN Outcome(0, NilBody, respondDecompressionError(r, d.err), tried, 0)
         ELSE ServeNext(d.body, tried, 0)

\* The loop without the Seek.
SeekStartNever(bodyReader, i) == bodyReader

\* bodyReader.Seek(0, io.SeekStart) before the attempt at Go index i - 1 > 0
SeekStart(bodyReader, i) == IF i > 1 THEN [bodyReader EXCEPT !.off = 0] ELSE bodyReader

\* The loop over requestEncodings of the multi-encoding branch, from the
\* i-th value on.
RECURSIVE DecompressLoop(_, _, _, _, _, _)
DecompressLoop(r, i, bodyReader, isEncodingSupported, decompressErr, attempts) ==
    IF i > Len(r.encodings)
    THEN (IF isEncodingSupported
          THEN Outcome(0, NilBody, respondDecompressionError(r, decompressErr), attempts, 1)
          ELSE Outcome(0, NilBody, respondUnsupportedContentEncoding(r), attempts, 1))
    ELSE LET trimmedEncoding == TrimmedEncoding(r.encodings[i]) IN
         IF ~IsEncodingSupported(trimmedEncoding)
         THEN DecompressLoop(r, i + 1, bodyReader, isEncodingSupported,
                             decompressErr, attempts)
         ELSE LET sought == SeekStart(bodyReader, i)
                  d == CompressorDecompress(sought, trimmedEncoding)
                  tried == Append(attempts, [enc |-> trimmedEncoding, off |-> sought.off]) IN
              IF d.err # NoErr
              THEN DecompressLoop(r, i + 1, d.src, TRUE, d.err, tried)
              ELSE ServeNext(d.body, tried, 1)

\* The multi-encoding branch: the body is buffered, then each value is tried.
DecompressMulti(r) ==
    LET all == ReadAll(r.body) IN
    IF all.err # NoErr
    THEN Outcome(0, NilBody, respondDecompressionError(r, all.err), <<>>, 1)
    ELSE DecompressLoop(r, 1, Source(all.data, FALSE), FALSE, NoErr, <<>>)

\* Decompress without the content-length test of its second early return.
DecompressNoLengthCheck(r) ==
    IF r.body.kind \in {"nil", "NoBody"} THEN ServeNext(r.body, <<>>, 0)
    ELSE IF Len(r.encodings) = 0 THEN ServeNext(r.body, <<>>, 0)
    ELSE IF Len(r.encodings) = 1 THEN DecompressSingle(r)
    ELSE DecompressMulti(r)

\* Decompress without the empty-header test of its second early return.
DecompressNoHeaderCheck(r) ==
    IF r.body.kind \in {"nil", "NoBody"} THEN ServeNext(r.body, <<>>, 0)
    ELSE IF r.contentLength = 0 THEN ServeNext(r.body, <<>>, 0)
    ELSE IF Len(r.encodings) = 1 THEN DecompressSingle(r)
    ELSE DecompressMulti(r)

\* The handler function Decompress wraps around next.
Decompress(r) ==
    IF r.body.kind \in {"nil", "NoBody"} THEN ServeNext(r.body, <<>>, 0)
    ELSE IF r.contentLength = 0 \/ Len(r.encodings) = 0 THEN ServeNext(r.body, <<>>, 0)
    ELSE IF Len(r.encodings) = 1 THEN DecompressSingle(r)
    ELSE DecompressMulti(r)

(***************************************************************************)
(* middlewares.MaxBodySize and gohttps.MaxBodySizeMiddleware               *)
(***************************************************************************)
kilobyte == 1024

\* errorMessage := fmt.Sprintf("Request body size exceeded %d KB(s)", n)
ErrorMessage(maxBodySizeKilobytes) ==
    [text |-> "Request body size exceeded %d KB(s)", values |-> <<maxBodySizeKilobytes>>]

\* The 413 problem body both guards write.
TooLargeResponse(r, maxBodySizeKilobytes) ==
    WriteResponseJSON(StatusRequestEntityTooLarge,
        [status |-> StatusRequestEntityTooLarge,
         detail |-> ErrorMessage(maxBodySizeKilobytes),
         instance |-> r.path])

\* MaxBodySize rejecting only a content length above the limit.
MaxBodySizeStrict(maxBodySizeKilobytes, r) ==
    IF maxBodySizeKilobytes <= 0 THEN ServeNext(r.body, <<>>, 0)
    ELSE LET maxBodySize == maxBodySizeKilobytes * kilobyte IN
         IF r.body.kind \in {"nil", "NoBody"} THEN ServeNext(r.body, <<>>, 0)
         ELSE IF r.contentLength > maxBodySize
         THEN Outcome(0, NilBody, TooLargeResponse(r, maxBodySizeKilobytes), <<>>, 0)
         ELSE ServeNext(MaxBytesReader(r.body, maxBodySize), <<>>, 0)

\* MaxBodySize disabled only by a negative limit.
MaxBodySizeZeroEnabled(maxBodySizeKilobytes, r) ==
    IF maxBodySizeKilobytes < 0 THEN ServeNext(r.body, <<>>, 0)
    ELSE LET maxBodySize == maxBodySizeKilobytes * kilobyte IN
         IF r.body.kind \in {"nil", "NoBody"} THEN ServeNext(r.body, <<>>, 0)
         ELSE IF r.contentLength >= maxBodySize
         THEN Outcome(0, NilBody, TooLargeResponse(r, maxBodySizeKilobytes), <<>>, 0)
         ELSE ServeNext(MaxBytesReader(r.body, maxBodySize), <<>>, 0)

\* middlewares.MaxBodySize(maxBodySizeKilobytes)(next) serving r
MaxBodySize(maxBodySizeKilobytes, r) ==
    IF maxBodySizeKilobytes <= 0 THEN ServeNext(r.body, <<>>, 0)
    ELSE LET maxBodySize == maxBodySizeKilobytes * kilobyte IN
         IF r.body.kind \in {"nil", "NoBody"} THEN ServeNext(r.body, <<>>, 0)
         ELSE IF r.contentLength >= maxBodySize
         THEN Outcome(0, NilBody, TooLargeResponse(r, maxBodySizeKilobytes), <<>>, 0)
         ELSE ServeNext(MaxBytesReader(r.body, maxBodySize), <<>>, 0)

\* MaxBodySizeMiddleware that never wraps the body of unknown length.
MaxBodySizeMiddlewareNoWrap(maxBodySizeKilobytes, r) ==
    IF maxBodySizeKilobytes <= 0 THEN ServeNext(r.body, <<>>, 0)
    ELSE LET maxBodySize == maxBodySizeKilobytes * kilobyte IN
         IF r.contentLength >= maxBodySize
         THEN Outcome(0, NilBody, TooLargeResponse(r, maxBodySizeKilobytes), <<>>, 0)
         ELSE ServeNext(r.body, <<>>, 0)

\* gohttps.MaxBodySizeMiddleware(maxBodySizeKilobytes)(next) serving r
MaxBodySizeMiddleware(maxBodySizeKilobytes, r) ==
    IF maxBodySizeKilobytes <= 0 THEN ServeNext(r.body, <<>>, 0)
    ELSE LET maxBodySize == maxBodySizeKilobytes * kilobyte IN
         IF r.contentLength >= maxBodySize
         THEN Outcome(0, NilBody, TooLargeResponse(r, maxBodySizeKilobytes), <<>>, 0)
         ELSE IF r.contentLength <= -1
         THEN ServeNext(MaxBytesReader(r.body, maxBodySize), <<>>, 0)
         ELSE ServeNext(r.body, <<>>, 0)

(***************************************************************************)
(* The requests the model sends.                                           *)
(***************************************************************************)
RECURSIVE SeqsUpTo(_, _)
SeqsUpTo(S, n) ==
    IF n = 0 THEN {<<>>}
    ELSE LET shorter == SeqsUpTo(S, n - 1) IN
         shorter \cup {Append(s, x) : s \in shorter, x \in S}

Payloads == SeqsUpTo(PayloadBytes, MaxPayload)

ValidStreams == {Encode(enc, p) : enc \in SupportedEncodings, p \in Payloads}

\* A stream cut short, or with one byte damaged.
Corruptions(s) ==
    {SubSeq(s, 1, Len(s) - 1)} \cup {[s EXCEPT ![i] = "ff"] : i \in 1..Len(s)}

BodyBytes == Payloads \cup ValidStreams \cup UNION {Corruptions(s) : s \in ValidStreams}

HeaderValues ==
    {EncGzip, <<" ","G","Z","i","p"," ">>, EncDeflate, EncZstd, <<"b","r">>,
     <<"b","r",","," ","g","z","i","p">>}

EncodingLists == SeqsUpTo(HeaderValues, MaxEncodings)

Paths == {"/test", "/v1/items"}

Request(body, contentLength, encodings, path) ==
    [body |-> body, contentLength |-> contentLength, encodings |-> encodings, path |-> path]

\* httptest.NewRequest / the server's request reader: an absent body has
\* content length 0.
IsDecompressRequest(r) ==
    \/ \E b \in {NilBody, NoBody}, e \in EncodingLists, p \in Paths :
          r = Request(b, 0, e, p)
    \/ \E bytes \in BodyBytes, fail \in BOOLEAN, e \in EncodingLists, p \in Paths :
          \E n \in {-1, 0, Len(bytes)} :
             r = Request(RawBody(Source(bytes, fail)), n, e, p)

BodyLens == {0, 1} \cup {k * kilobyte + d : k \in 1..MaxKB, d \in {-1, 0, 1}}

IsSizedRequest(r) ==
    \/ \E b \in {NilBody, NoBody}, p \in Paths : r = Request(b, 0, <<>>, p)
    \/ \E n \in BodyLens, cl \in {-1} \cup BodyLens, p \in Paths :
          r = Request(SizedBody(n), cl, <<>>, p)

Limits == -1..MaxKB

(***************************************************************************)
(* The server bootstrap: ServerConfig, the process environment, errors,    *)
(* NewRouter and CreatePrometheusServer.                                   *)
(***************************************************************************)
\* An error value: the sentinel errors.Is matches, and the text wrapped after it.
Error(sentinel, text) == [is |-> sentinel, text |-> text]
nil == Error("nil", <<>>)
ErrServerClosed == Error("http: Server closed", <<>>)
errPrometheusInvalidPort == Error("invalid prometheus port", <<>>)
errServerConfigRequired == Error("server config required", <<>>)
\* The errors of a listener name the listener (its address) in their text.
ErrAddrInUse(l) == Error("listen tcp: address already in use", <<l>>)
ErrAccept(l) == Error("accept tcp: too many open files", <<l>>)
ErrCertificate == Error("open cert file: no such file or directory", <<>>)
ErrListenerClose(l) == Error("close tcp: use of closed network connection", <<l>>)

errorsIs(err, target) == err.is = target.is

\* fmt.Errorf("%w: %s", err, text)
Errorf(err, text) == Error(err.is, text)

pathMetrics == "/metrics"
pathHealthz == "/healthz"

\* strconv.Atoi on a character sequence: an optional sign, then decimal digits.
Digits == <<"0", "1", "2", "3", "4", "5", "6", "7", "8", "9">>
IsDigit(c) == \E i \in 1..Len(Digits) : Digits[i] = c
DigitValue(c) == (CHOOSE i \in 1..Len(Digits) : Digits[i] = c) - 1

RECURSIVE ParseDigits(_, _)
ParseDigits(s, acc) ==
    IF s = <<>> THEN acc ELSE ParseDigits(Tail(s), acc * 10 + DigitValue(Head(s)))

ErrSyntax == Error("strconv.Atoi: invalid syntax", <<>>)

Atoi(s) ==
    LET signed == s # <<>> /\ Head(s) \in {"+", "-"}
        digits == IF signed THEN Tail(s) ELSE s
        valid == digits # <<>> /\ \A i \in 1..Len(digits) : IsDigit(digits[i])
        sign == IF signed /\ Head(s) = "-" THEN -1 ELSE 1
    IN  IF valid THEN [n |-> sign * ParseDigits(digits, 0), err |-> nil]
        ELSE [n |-> 0, err |-> ErrSyntax]

\* The ServerConfig fields the bootstrap reads.  isNil marks the absent
\* configuration (a nil *ServerConfig).
ServerConfig(port, compressionLevel, requestTimeout, maxBodyKilobytes, tls, origins) ==
    [isNil |-> FALSE, Port |-> port, CompressionLevel |-> compressionLevel,
     RequestTimeout |-> requestTimeout, MaxBodyKilobytes |-> maxBodyKilobytes,
     TLSCertFile |-> tls, TLSKeyFile |-> tls, AllowedOrigins |-> origins]

NilConfig == [ServerConfig(0, 0, 0, 0, "", <<>>) EXCEPT !.isNil = TRUE]

\* The *chi.Mux: the middlewares router.Use installed, in order, whether
\* NewRouter built it, and the paths with a registered handler.
Router(middlewares, routes) == [middlewares |-> middlewares, routes |-> routes]

NoRouter == Router(<<>>, {})

\* NewRouter(nil, logger) of the tests: a router with the unconditional middleware.
NewRouterNil == Router(<<"RealIP">>, {})

NewRouter(config) ==
    LET use(cond, mw) == IF cond THEN <<mw>> ELSE <<>>
    IN  Router(<<"RealIP">>
               \o use(config.RequestTimeout > 0, "Timeout")
               \o use(config.CompressionLevel > 0, "Compress")
               \o use(config.MaxBodyKilobytes > 0, "MaxBodySizeMiddleware")
               \o use(Len(config.AllowedOrigins) > 0, "cors"),
               {})

RouterHandle(r, path) == [r EXCEPT !.routes = @ \cup {path}]

\* An *http.Server: isNil for the nil pointer, Addr its port.
NilServer == [isNil |-> TRUE, Addr |-> 0]
createPrometheusServerInternal(port) == [isNil |-> FALSE, Addr |-> port]

\* The process environment: OTEL_METRICS_EXPORTER and OTEL_EXPORTER_PROMETHEUS_PORT.
Environ(exporter, port) == [exporter |-> exporter, port |-> port]

\* The result of CreatePrometheusServer, and the router it leaves behind.
PromResult(server, err, r) == [server |-> server, err |-> err, router |-> r]

\* The variant that never looks at the main port.
CreatePrometheusServerAlwaysSeparate(r, currentPort, env) ==
    LET prometheusEnabled == env.exporter = "prometheus"
        prometheusPortEnv == env.port
        parsed == Atoi(prometheusPortEnv)
    IN  IF prometheusEnabled /\ prometheusPortEnv # <<>>
        THEN IF parsed.err # nil
             THEN PromResult(NilServer, Errorf(errPrometheusInvalidPort, prometheusPortEnv), r)
             ELSE PromResult(createPrometheusServerInternal(parsed.n), nil, r)
        ELSE PromResult(NilServer, nil, r)

\* The variant that swallows the parse error.
CreatePrometheusServerLenient(r, currentPort, env) ==
    LET prometheusEnabled == env.exporter = "prometheus"
        prometheusPortEnv == env.port
        parsed == Atoi(prometheusPortEnv)
    IN  IF prometheusEnabled /\ prometheusPortEnv # <<>>
        THEN IF parsed.n = currentPort
             THEN PromResult(NilServer, nil, RouterHandle(r, pathMetrics))
             ELSE PromResult(createPrometheusServerInternal(parsed.n), nil, r)
        ELSE PromResult(NilServer, nil, r)

CreatePrometheusServer(r, currentPort, env) ==
    LET prometheusEnabled == env.exporter = "prometheus"
        prometheusPortEnv == env.port
        parsed == Atoi(prometheusPortEnv)
    IN  IF prometheusEnabled /\ prometheusPortEnv # <<>>
        THEN IF parsed.err # nil
             THEN PromResult(NilServer, Errorf(errPrometheusInvalidPort, prometheusPortEnv), r)
             ELSE IF parsed.n = currentPort
                  THEN PromResult(NilServer, nil, RouterHandle(r, pathMetrics))
                  ELSE PromResult(createPrometheusServerInternal(parsed.n), nil, r)
        ELSE PromResult(NilServer, nil, r)

\* A listener: its goroutine ("none": not started, "spawned": started and
\* not yet listening, "serving": bound and accepting, "returned": the
\* ListenAndServe call of the goroutine returned err, "exited": the goroutine
\* ended), the error its ListenAndServe call returned, whether Shutdown was
\* called on its http.Server, and the error that Shutdown call returned.
Listener(state, err, inShutdown, shutdownErr) ==
    [state |-> state, err |-> err, inShutdown |-> inShutdown, shutdownErr |-> shutdownErr]
ListenerNames == {"main", "prom"}
NoListeners == [l \in ListenerNames |-> Listener("none", nil, FALSE, nil)]

\* A socket is open and accepting connections.
Accepting(l) == listeners[l].state = "serving" /\ ~listeners[l].inShutdown

\* The goroutine is started and its ListenAndServe call will open the socket.
AboutToListen(l) == listeners[l].state = "spawned" /\ ~listeners[l].inShutdown

\* The server variables outside a run of the bootstrap.
ServerIdle ==
    /\ envVars = NilConfig
    /\ environ = Environ("", <<>>)
    /\ router = NoRouter
    /\ co = "idle"
    /\ selected = "none"
    /\ promServer = NilServer
    /\ listeners = NoListeners
    /\ serverErr = <<>>
    /\ ctxDone = FALSE
    /\ ret = nil
    /\ warnings = <<>>

(***************************************************************************)
(* The state machine: a request is received, one middleware serves it.     *)
(***************************************************************************)
NotServed == [calls |-> 0, body |-> NilBody, read |-> Read(<<>>, NoErr)]
NoLog == [attempts |-> <<>>, buffered |-> 0]

\* What serving leaves behind, from the outcome of the handler function; the
\* downstream handler reads the body it is given to the end.
Served(out) ==
    /\ pc' = "served"
    /\ resp' = out.resp
    /\ handler' = [calls |-> out.calls, body |-> out.body,
                   read |-> IF out.calls > 0 THEN ReadAll(out.body) ELSE Read(<<>>, NoErr)]
    /\ log' = [attempts |-> out.attempts, buffered |-> out.buffered]
    /\ UNCHANGED <<req, cfg>>
    /\ UNCHANGED serverVars

InitDecompress ==
    /\ pc = "received"
    /\ cfg = [mw |-> "Decompress", maxBodySizeKilobytes |-> 0]
    /\ IsDecompressRequest(req)
    /\ resp = NoResponse
    /\ handler = NotServed
    /\ log = NoLog
    /\ ServerIdle

ServeDecompress ==
    /\ pc = "received"
    /\ cfg.mw = "Decompress"
    /\ Served(Decompress(req))

SpecDecompress == InitDecompress /\ [][ServeDecompress]_vars

InitMaxBodySize ==
    /\ pc = "received"
    /\ cfg \in {[mw |-> m, maxBodySizeKilobytes |-> n] :
                   m \in {"MaxBodySize", "MaxBodySizeMiddleware"}, n \in Limits}
    /\ IsSizedRequest(req)
    /\ resp = NoResponse
    /\ handler = NotServed
    /\ log = NoLog
    /\ ServerIdle

ServeMaxBodySize ==
    /\ pc = "received"
    /\ cfg.mw = "MaxBodySize"
    /\ Served(MaxBodySize(cfg.maxBodySizeKilobytes, req))

ServeMaxBodySizeMiddleware ==
    /\ pc = "received"
    /\ cfg.mw = "MaxBodySizeMiddleware"
    /\ Served(MaxBodySizeMiddleware(cfg.maxBodySizeKilobytes, req))

NextMaxBodySize == ServeMaxBodySize \/ ServeMaxBodySizeMiddleware

SpecMaxBodySize == InitMaxBodySize /\ [][NextMaxBodySize]_vars

(***************************************************************************)
(* httputils.DecodeRequestBody[T] for T = struct{ Name string              *)
(* `json:"name"` }.  A body is a sequence of JSON tokens; a member of an   *)
(* object is one token.                                                    *)
(***************************************************************************)
MaxTokens == 4

StatusUnprocessableEntity == 422

MemberString == "\"name\":\"test\""
MemberNumber == "\"name\":123"
Members == {MemberString, MemberNumber}
JSONTokens == {"{", "}", ",", "invalid"} \cup Members

ErrJSONSyntax == "invalid character"
ErrUnmarshalType == "json: cannot unmarshal"

\* *T: the nil pointer, or a pointer to a T with the given Name.
NilInput == [isNil |-> TRUE, Name |-> ""]
Input(name) == [isNil |-> FALSE, Name |-> name]

\* The scanner inside an object that starts at token 1.  st is what was read
\* last: "{", "member" or ",".  Returns the error and the number of tokens
\* the value takes.
RECURSIVE JSONScanObject(_, _, _)
JSONScanObject(src, i, st) ==
    IF i > Len(src.bytes)
    THEN [err |-> SrcEndErr(src), n |-> Len(src.bytes)]
    ELSE LET t == src.bytes[i] IN
         CASE t \in Members /\ st \in {"{", ","} -> JSONScanObject(src, i + 1, "member")
           [] t = "," /\ st = "member" -> JSONScanObject(src, i + 1, ",")
           [] t = "}" /\ st \in {"{", "member"} -> [err |-> NoErr, n |-> i]
           [] OTHER -> [err |-> ErrJSONSyntax, n |-> i]

\* (*json.Decoder).readValue: the next JSON value of the stream and nothing
\* after it.
JSONReadValue(src) ==
    IF src.bytes = <<>>
    THEN [err |-> IF src.fail THEN ErrTransport ELSE ErrEOF, n |-> 0]
    ELSE IF Head(src.bytes) = "{"
         THEN JSONScanObject(src, 2, "{")
         ELSE [err |-> IF Head(src.bytes) \in Members THEN ErrUnmarshalType ELSE ErrJSONSyntax,
               n |-> 1]

\* json.NewDecoder(r.Body).Decode(&input): [err, input]
JSONDecode(src) ==
    LET v == JSONReadValue(src)
        members == {src.bytes[i] : i \in 1..v.n} \cap Members
    IN  IF v.err # NoErr THEN [err |-> v.err, input |-> Input("")]
        ELSE IF MemberNumber \in members
             THEN [err |-> ErrUnmarshalType,
                   input |-> Input(IF MemberString \in members THEN "test" ELSE "")]
             ELSE [err |-> NoErr,
                   input |-> Input(IF MemberString \in members THEN "test" ELSE "")]

\* What DecodeRequestBody returns and what it wrote.
Decoded(input, ok, response) == [input |-> input, ok |-> ok, resp |-> response]

DecodeRequestBody(r) ==
    IF r.body.kind \in {"nil", "NoBody"}
    THEN Decoded(NilInput, FALSE,
                 WriteResponseJSON(StatusUnprocessableEntity,
                                   [detail |-> "Request body is required", pointer |-> "#"]))
    ELSE LET d == JSONDecode(r.body.src) IN
         IF d.err # NoErr
         THEN Decoded(NilInput, FALSE,
                      WriteResponseJSON(StatusUnprocessableEntity, [detail |-> "Bad Request"]))
         ELSE Decoded(d.input, TRUE, NoResponse)

JSONTexts == UNION {[1..n -> JSONTokens] : n \in 0..MaxTokens}

IsDecodeRequest(r) ==
    \/ \E b \in {NilBody, NoBody}, p \in Paths : r = Request(b, 0, <<>>, p)
    \/ \E text \in JSONTexts, fail \in BOOLEAN :
          r = Request(RawBody(Source(text, fail)), Len(text), <<>>, "/test")

InitDecodeRequestBody ==
    /\ pc = "received"
    /\ cfg = [mw |-> "DecodeRequestBody", maxBodySizeKilobytes |-> 0]
    /\ IsDecodeRequest(req)
    /\ resp = NoResponse
    /\ handler = [calls |-> 0, input |-> NilInput, ok |-> FALSE]
    /\ log = NoLog
    /\ ServerIdle

\* A handler calls DecodeRequestBody on the request it was given.
ServeDecodeRequestBody ==
    /\ pc = "received"
    /\ cfg.mw = "DecodeRequestBody"
    /\ LET d == DecodeRequestBody(req) IN
          /\ handler' = [calls |-> 1, input |-> d.input, ok |-> d.ok]
          /\ resp' = d.resp
    /\ pc' = "served"
    /\ UNCHANGED <<req, cfg, log>>
    /\ UNCHANGED serverVars

SpecDecodeRequestBody == InitDecodeRequestBody /\ [][ServeDecodeRequestBody]_vars

(***************************************************************************)
(* The bootstrap state machine: one goroutine calls NewRouter and then     *)
(* ListenAndServe; ListenAndServe starts a goroutine per listener and      *)
(* waits in a select; the environment cancels the context and fails        *)
(* listeners.                                                              *)
(***************************************************************************)
serverErrCapacity == 1

ServerConfigs ==
    {ServerConfig(8080, 0, 0, 0, "", <<>>),
     ServerConfig(8080, 5, 30, 1, "", <<"http://localhost:3000">>),
     ServerConfig(8080, 0, 0, 0, "cert.pem", <<>>)}

Exporters == {"", "prometheus", "otlp"}

PortEnvs ==
    {<<>>,
     <<"8", "0", "8", "0">>,
     <<"0", "8", "0", "8", "0">>,
     <<"9", "0", "9", "0">>,
     <<"+", "9", "0", "9", "0">>,
     <<"i", "n", "v", "a", "l", "i", "d">>,
     <<"9", "0", "9", "0", " ">>}

RequestIdle ==
    /\ pc = "idle"
    /\ req = Request(NilBody, 0, <<>>, "/test")
    /\ cfg = [mw |-> "none", maxBodySizeKilobytes |-> 0]
    /\ resp = NoResponse
    /\ handler = NotServed
    /\ log = NoLog

InitServer ==
    /\ RequestIdle
    /\ envVars \in ServerConfigs \cup {NilConfig}
    /\ environ \in {Environ(e, p) : e \in Exporters, p \in PortEnvs}
    /\ router = NoRouter
    /\ co = "Created"
    /\ selected = "none"
    /\ promServer = NilServer
    /\ listeners = NoListeners
    /\ serverErr = <<>>
    /\ ctxDone = FALSE
    /\ ret = nil
    /\ warnings = <<>>

\* The caller builds the router before it calls ListenAndServe.
BuildRouter ==
    /\ co = "Created"
    /\ router' = IF envVars.isNil THEN NewRouterNil ELSE NewRouter(envVars)
    /\ co' = "ListenAndServe"
    /\ UNCHANGED <<envVars, environ, selected, promServer, listeners, serverErr,
                   ctxDone, ret, warnings>>
    /\ UNCHANGED requestVars

\* A return of ListenAndServe: the deferred function, when one is
\* registered, runs before the caller sees the result.
Return(err) ==
    /\ ret' = err
    /\ co' = IF promServer.isNil THEN "returned" ELSE "deferred"

\* The variant without the configuration check.
RequireConfigSkipped ==
    /\ co = "ListenAndServe"
    /\ co' = "healthz"
    /\ UNCHANGED <<envVars, environ, router, selected, promServer, listeners,
                   serverErr, ctxDone, ret, warnings>>
    /\ UNCHANGED requestVars

\* ListenAndServe refuses an absent configuration.
RequireConfig ==
    /\ co = "ListenAndServe"
    /\ IF envVars.isNil
       THEN /\ ret' = errServerConfigRequired
            /\ co' = "returned"
       ELSE /\ ret' = ret
            /\ co' = "healthz"
    /\ UNCHANGED <<envVars, environ, router, selected, promServer, listeners,
                   serverErr, ctxDone, warnings>>
    /\ UNCHANGED requestVars

\* The variant that leaves the health route out.
RegisterHealthzSkipped ==
    /\ co = "healthz"
    /\ serverErr' = <<>>
    /\ co' = "CreatePrometheusServer"
    /\ UNCHANGED <<envVars, environ, router, selected, promServer, listeners, ctxDone,
                   ret, warnings>>
    /\ UNCHANGED requestVars

\* router.Get(pathHealthz, ...) and serverErr := make(chan error, 1)
RegisterHealthz ==
    /\ co = "healthz"
    /\ router' = RouterHandle(router, pathHealthz)
    /\ serverErr' = <<>>
    /\ co' = "CreatePrometheusServer"
    /\ UNCHANGED <<envVars, environ, selected, promServer, listeners, ctxDone,
                   ret, warnings>>
    /\ UNCHANGED requestVars

\* promServer, err := CreatePrometheusServer(router, envVars.Port)
CreateMetrics ==
    /\ co = "CreatePrometheusServer"
    /\ LET res == CreatePrometheusServer(router, envVars.Port, environ)
       IN  /\ router' = res.router
           /\ IF res.err # nil
              THEN /\ ret' = res.err
                   /\ co' = "returned"
                   /\ promServer' = promServer
              ELSE /\ ret' = ret
                   /\ promServer' = res.server
                   /\ co' = IF res.server.isNil THEN "StartMain" ELSE "StartPrometheus"
    /\ UNCHANGED <<envVars, environ, selected, listeners, serverErr, ctxDone, warnings>>
    /\ UNCHANGED requestVars

\* if promServer != nil { defer ...; go func() { promServer.ListenAndServe() ... }() }
StartPrometheus ==
    /\ co = "StartPrometheus"
    /\ listeners' = [listeners EXCEPT !["prom"].state = "spawned"]
    /\ co' = "StartMain"
    /\ UNCHANGED <<envVars, environ, router, selected, promServer, serverErr,
                   ctxDone, ret, warnings>>
    /\ UNCHANGED requestVars

\* server := http.Server{...}; go func() { server.ListenAndServe[TLS]() ... }()
StartMain ==
    /\ co = "StartMain"
    /\ listeners' = [listeners EXCEPT !["main"].state = "spawned"]
    /\ co' = "select"
    /\ UNCHANGED <<envVars, environ, router, selected, promServer, serverErr,
                   ctxDone, ret, warnings>>
    /\ UNCHANGED requestVars

\* The variant that looks at serverErr only once the context is cancelled.
SelectServerErrAfterDone ==
    /\ co = "select"
    /\ ctxDone
    /\ serverErr # <<>>
    /\ selected' = "serverErr"
    /\ serverErr' = Tail(serverErr)
    /\ Return(Head(serverErr))
    /\ UNCHANGED <<envVars, environ, router, promServer, listeners, ctxDone, warnings>>
    /\ UNCHANGED requestVars

\* case err := <-serverErr: return err
SelectServerErr ==
    /\ co = "select"
    /\ serverErr # <<>>
    /\ selected' = "serverErr"
    /\ serverErr' = Tail(serverErr)
    /\ Return(Head(serverErr))
    /\ UNCHANGED <<envVars, environ, router, promServer, listeners, ctxDone, warnings>>
    /\ UNCHANGED requestVars

\* The variant whose second case is always ready.
SelectDoneUnguarded ==
    /\ co = "select"
    /\ selected' = "ctx.Done"
    /\ co' = "Shutdown"
    /\ UNCHANGED <<envVars, environ, router, promServer, listeners, serverErr,
                   ctxDone, ret, warnings>>
    /\ UNCHANGED requestVars

\* case <-ctx.Done(): slog.Info("received the quit signal, exiting...")
SelectDone ==
    /\ co = "select"
    /\ ctxDone
    /\ selected' = "ctx.Done"
    /\ co' = "Shutdown"
    /\ UNCHANGED <<envVars, environ, router, promServer, listeners, serverErr,
                   ctxDone, ret, warnings>>
    /\ UNCHANGED requestVars

\* (*http.Server).Shutdown closes the listening socket, makes the pending or
\* next ListenAndServe return ErrServerClosed, and returns the error of
\* closing the socket, if any.
ShutdownResults(l) == IF Accepting(l) THEN {nil, ErrListenerClose(l)} ELSE {nil}
AfterShutdown(l, err) ==
    [listeners EXCEPT ![l].inShutdown = TRUE, ![l].shutdownErr = err]

\* return server.Shutdown(context.Background())
ShutdownMain ==
    /\ co = "Shutdown"
    /\ \E err \in ShutdownResults("main") :
          /\ Return(err)
          /\ listeners' = AfterShutdown("main", err)
    /\ UNCHANGED <<envVars, environ, router, selected, promServer, serverErr,
                   ctxDone, warnings>>
    /\ UNCHANGED requestVars

\* The deferred function: promServer.Shutdown, its error logged as a warning.
DeferredShutdown ==
    /\ co = "deferred"
    /\ \E err \in ShutdownResults("prom") :
          /\ warnings' = IF err # nil /\ ~errorsIs(err, ErrServerClosed)
                         THEN Append(warnings, err) ELSE warnings
          /\ listeners' = AfterShutdown("prom", err)
    /\ co' = "returned"
    /\ UNCHANGED <<envVars, environ, router, selected, promServer, serverErr,
                   ctxDone, ret>>
    /\ UNCHANGED requestVars

\* The errors with which a listener can fail to start.
StartErrors(l) ==
    IF l = "main" /\ (envVars.TLSCertFile # "" \/ envVars.TLSKeyFile # "")
    THEN {ErrCertificate, ErrAddrInUse(l)} ELSE {ErrAddrInUse(l)}

ListenerReturns(l, err) ==
    listeners' = [listeners EXCEPT ![l].state = "returned", ![l].err = err]

\* The goroutine calls ListenAndServe (or ListenAndServeTLS): the call binds
\* the socket and serves, or returns at once.
Listen(l) ==
    /\ listeners[l].state = "spawned"
    /\ \/ /\ listeners[l].inShutdown
          /\ ListenerReturns(l, ErrServerClosed)
       \/ /\ ~listeners[l].inShutdown
          /\ listeners' = [listeners EXCEPT ![l].state = "serving"]
       \/ /\ ~listeners[l].inShutdown
          /\ \E err \in StartErrors(l) : ListenerReturns(l, err)
    /\ UNCHANGED <<envVars, environ, router, co, selected, promServer, serverErr,
                   ctxDone, ret, warnings>>
    /\ UNCHANGED requestVars

\* A serving listener fails at runtime.
ServeFail(l) ==
    /\ Accepting(l)
    /\ ListenerReturns(l, ErrAccept(l))
    /\ UNCHANGED <<envVars, environ, router, co, selected, promServer, serverErr,
                   ctxDone, ret, warnings>>
    /\ UNCHANGED requestVars

\* A serving listener whose server was shut down returns ErrServerClosed.
ServeClosed(l) ==
    /\ listeners[l].state = "serving"
    /\ listeners[l].inShutdown
    /\ ListenerReturns(l, ErrServerClosed)
    /\ UNCHANGED <<envVars, environ, router, co, selected, promServer, serverErr,
                   ctxDone, ret, warnings>>
    /\ UNCHANGED requestVars

\* Whether the goroutine of l sends err on serverErr.
Reports(l, err) ==
    IF l = "main" THEN err # nil /\ ~errorsIs(err, ErrServerClosed)
    ELSE ~errorsIs(err, ErrServerClosed)

\* The end of the goroutine: serverErr <- err (blocking while the channel is
\* full), or nothing.
Report(l) ==
    /\ listeners[l].state = "returned"
    /\ \/ /\ Reports(l, listeners[l].err)
          /\ Len(serverErr) < serverErrCapacity
          /\ serverErr' = Append(serverErr, listeners[l].err)
       \/ /\ ~Reports(l, listeners[l].err)
          /\ serverErr' = serverErr
    /\ listeners' = [listeners EXCEPT ![l].state = "exited"]
    /\ UNCHANGED <<envVars, environ, router, co, selected, promServer, ctxDone,
                   ret, warnings>>
    /\ UNCHANGED requestVars

\* The governing context is cancelled.
Cancel ==
    /\ ~ctxDone
    /\ ctxDone' = TRUE
    /\ UNCHANGED <<envVars, environ, router, co, selected, promServer, listeners,
                   serverErr, ret, warnings>>
    /\ UNCHANGED requestVars

\* The steps of the goroutine that runs ListenAndServe.
Coordinator ==
    \/ BuildRouter
    \/ RequireConfig
    \/ RegisterHealthz
    \/ CreateMetrics
    \/ StartPrometheus
    \/ StartMain
    \/ SelectServerErr
    \/ SelectDone
    \/ ShutdownMain
    \/ DeferredShutdown

\* The steps a listener goroutine takes when it is scheduled.
Goroutine(l) == Listen(l) \/ ServeClosed(l) \/ Report(l)

NextServer ==
    \/ Coordinator
    \/ \E l \in ListenerNames : Goroutine(l)
    \/ \E l \in ListenerNames : ServeFail(l)
    \/ Cancel

SpecServer == InitServer /\ [][NextServer]_vars

\* The Go scheduler runs every goroutine that can take a step.
SpecServerFair ==
    /\ SpecServer
    /\ WF_vars(Coordinator)
    /\ \A l \in ListenerNames : WF_vars(Goroutine(l))

(***************************************************************************)
(* Properties.                                                             *)
(***************************************************************************)
IsServed == pc = "served"
HasBody == req.body.kind \notin {"nil", "NoBody"}
Tokens == [i \in 1..Len(req.encodings) |-> TrimmedEncoding(req.encodings[i])]

\* A Decompress request whose body is present and whose length is not zero.
Decodable == IsServed /\ cfg.mw = "Decompress" /\ HasBody /\ req.contentLength # 0

\* bytes is the stream some payload is compressed into with enc.
IsValidStream(enc, bytes) ==
    LET r == ReadAll(DecoderBody(enc, Source(bytes, FALSE))) IN
    r.err = NoErr /\ Encode(enc, r.data) = bytes

\* C1: a body that is payload P compressed with a supported encoding E, sent
\* whole with one Content-Encoding value naming E, reaches the handler exactly
\* once and the handler reads exactly P.
C1_SingleEncodingRoundTrip ==
    (Decodable /\ Len(req.encodings) = 1 /\ ~req.body.src.fail) =>
        \A enc \in SupportedEncodings, p \in SeqsUpTo(PayloadBytes, MaxPayload) :
            (Tokens[1] = enc /\ req.body.src.bytes = Encode(enc, p)) =>
                /\ handler.calls = 1
                /\ handler.read = Read(p, NoErr)
                /\ resp = NoResponse

C1_Witness ==
    /\ Decodable
    /\ req.encodings = <<EncGzip>>
    /\ req.body.src = Source(GzipEncode(<<"a", "b">>), FALSE)
    /\ handler.calls = 1
    /\ handler.read.data = <<"a", "b">>

\* C2: with a present body, a nonzero content length and one or more
\* Content-Encoding values of which none is supported after trimming and
\* lower-casing, the response is 415 and the handler is never invoked.
C2_UnsupportedIs415 ==
    (Decodable /\ Len(req.encodings) >= 1
       /\ \A i \in 1..Len(req.encodings) : ~IsEncodingSupported(Tokens[i])) =>
        resp.status = StatusUnsupportedMediaType /\ handler.calls = 0

\* C3: with two or more values the supported tokens are tried in order, each
\* against the original body; the first whose decode succeeds supplies the
\* handler's body and ends the search; all supported decodes failing gives
\* 400, no supported token gives 415.
C3_FirstDecodableTokenWins ==
    (Decodable /\ Len(req.encodings) >= 2) =>
        LET idx == 1..Len(req.encodings)
            Opens(i) == /\ IsEncodingSupported(Tokens[i])
                        /\ ~req.body.src.fail
                        /\ CompressorDecompress(req.body.src, Tokens[i]).err = NoErr
            TriedUpTo(k) == {i \in 1..k : IsEncodingSupported(Tokens[i])}
        IN IF \E i \in idx : Opens(i)
           THEN LET k == CHOOSE i \in idx : Opens(i) /\ \A j \in 1..(i - 1) : ~Opens(j) IN
                /\ handler.calls = 1
                /\ handler.body = DecoderBody(Tokens[k], req.body.src)
                /\ Len(log.attempts) = Cardinality(TriedUpTo(k))
                /\ \A a \in 1..Len(log.attempts) : log.attempts[a].off = 0
                /\ log.attempts[Len(log.attempts)].enc = Tokens[k]
           ELSE IF \E i \in idx : IsEncodingSupported(Tokens[i])
           THEN resp.status = StatusBadRequest /\ handler.calls = 0
           ELSE resp.status = StatusUnsupportedMediaType /\ handler.calls = 0

\* The error a decoder of enc reports on src: when it is constructed, or else
\* while its output is read to the end.
DecoderError(enc, src) ==
    LET c == CompressorDecompress(src, enc) IN
    IF c.err # NoErr THEN c.err ELSE ReadAll(c.body).err

\* C4: one supported Content-Encoding value and a body that is not a valid
\* stream of that encoding give a 400 whose detail is the decoder's error
\* text, and the handler is not invoked.
C4_InvalidStreamIs400 ==
    (Decodable /\ Len(req.encodings) = 1 /\ IsEncodingSupported(Tokens[1])
       /\ ~IsValidStream(Tokens[1], req.body.src.bytes)) =>
        /\ resp.status = StatusBadRequest
        /\ resp.body.detail.text = DecoderError(Tokens[1], req.body.src)
        /\ handler.calls = 0

\* The values of one header line that lists several encodings, as the same
\* encodings sent in separate header instances.
RECURSIVE SplitList(_, _)
SplitList(line, cur) ==
    IF line = <<>> THEN <<cur>>
    ELSE IF Head(line) = "," THEN <<cur>> \o SplitList(Tail(line), <<>>)
    ELSE SplitList(Tail(line), Append(cur, Head(line)))

\* C5: one Content-Encoding line listing several encodings is treated as the
\* same encodings sent in several header instances: same status, same
\* decision to invoke the handler, same body seen by the handler.
C5_ListLineEqualsInstances ==
    (IsServed /\ cfg.mw = "Decompress" /\ Len(req.encodings) = 1) =>
        LET alt == Decompress([req EXCEPT !.encodings = SplitList(req.encodings[1], <<>>)]) IN
        /\ alt.resp.status = resp.status
        /\ alt.calls = handler.calls
        /\ (alt.calls > 0 => ReadAll(alt.body) = handler.read)

\* C6: an absent body or a declared content length of zero passes through:
\* the handler is invoked with the request's own body, nothing is decoded or
\* buffered and nothing is written, whatever Content-Encoding values exist.
C6_AbsentOrEmptyPassesThrough ==
    (IsServed /\ cfg.mw = "Decompress" /\ (~HasBody \/ req.contentLength = 0)) =>
        /\ handler.calls = 1
        /\ handler.body = req.body
        /\ log = NoLog
        /\ resp = NoResponse

C6_Witness ==
    /\ IsServed /\ cfg.mw = "Decompress"
    /\ HasBody /\ req.contentLength = 0
    /\ req.encodings = <<<<"b", "r">>>>
    /\ req.body.src.bytes # <<>>
    /\ handler.calls = 1

\* C7: a present body of nonzero content length without any Content-Encoding
\* header reaches the handler, which reads exactly the bytes sent, and the
\* middleware writes no response.
C7_NoHeaderPassesThrough ==
    (Decodable /\ Len(req.encodings) = 0) =>
        /\ handler.calls = 1
        /\ handler.read.data = req.body.src.bytes
        /\ resp = NoResponse

C7_Witness ==
    /\ Decodable /\ req.encodings = <<>>
    /\ req.body.src.bytes = GzipEncode(<<"a">>)
    /\ req.contentLength = Len(req.body.src.bytes)
    /\ handler.calls = 1
    /\ handler.read.data = req.body.src.bytes

IsGuard == cfg.mw \in {"MaxBodySize", "MaxBodySizeMiddleware"}

\* C8: with a limit of N > 0 kilobytes and a present body, a declared content
\* length of N*1024 or more is answered 413 without the handler, and one from
\* 0 to N*1024 - 1 reaches the handler.
C8_LimitBoundary ==
    (IsServed /\ IsGuard /\ cfg.maxBodySizeKilobytes > 0 /\ HasBody) =>
        LET limit == cfg.maxBodySizeKilobytes * 1024 IN
        /\ req.contentLength >= limit =>
              resp.status = StatusRequestEntityTooLarge /\ handler.calls = 0
        /\ (req.contentLength >= 0 /\ req.contentLength <= limit - 1) =>
              handler.calls = 1 /\ resp = NoResponse

C8_Witness ==
    /\ IsServed /\ IsGuard /\ cfg.maxBodySizeKilobytes = 1 /\ HasBody
    /\ req.contentLength = 1024
    /\ resp.status = StatusRequestEntityTooLarge
    /\ handler.calls = 0

\* C9: with a limit of zero or less the guard is the identity: every request
\* reaches the handler with its own, unwrapped body and no 413 is written.
C9_NonPositiveLimitDisables ==
    (IsServed /\ IsGuard /\ cfg.maxBodySizeKilobytes <= 0) =>
        /\ handler.calls = 1
        /\ handler.body = req.body
        /\ resp = NoResponse

C9_Witness ==
    /\ IsServed /\ IsGuard /\ cfg.maxBodySizeKilobytes = 0
    /\ HasBody /\ req.body.len = 2049 /\ req.contentLength = 2049
    /\ handler.calls = 1
    /\ handler.read.n = 2049

\* C10: with a limit of N > 0 kilobytes, a present body of undeclared size
\* (content length -1) reaches the handler behind a reader capped at N*1024
\* bytes: at most N*1024 bytes can be read, and reading a longer body ends in
\* a read error after N*1024 bytes.
C10_UndeclaredSizeIsCapped ==
    (IsServed /\ IsGuard /\ cfg.maxBodySizeKilobytes > 0 /\ HasBody
       /\ req.contentLength = -1) =>
        LET limit == cfg.maxBodySizeKilobytes * 1024 IN
        /\ handler.calls = 1
        /\ handler.read.n <= limit
        /\ req.body.len <= limit => handler.read = [n |-> req.body.len, data |-> <<>>, err |-> NoErr]
        /\ req.body.len > limit => handler.read.n = limit /\ handler.read.err = ErrTooLarge

C10_Witness ==
    /\ IsServed /\ IsGuard /\ cfg.maxBodySizeKilobytes = 1 /\ HasBody
    /\ req.contentLength = -1
    /\ req.body.len = 1025
    /\ handler.calls = 1
    /\ handler.read.n = 1024
    /\ handler.read.err = ErrTooLarge

(***************************************************************************)
(* Properties of the bootstrap.                                            *)
(***************************************************************************)
Returned == co = "returned"
NoListenerStarted == \A l \in ListenerNames : listeners[l].state = "none"

C12_CancelReturnsNilOrClosed ==
    (Returned /\ selected = "ctx.Done") => (ret = nil \/ errorsIs(ret, ErrServerClosed))

\* Under fair scheduling a cancellation seen by the select ends ListenAndServe.
CancelEndsListenAndServe == (ctxDone /\ co = "select") ~> Returned

\* A listener stopped with an error its goroutine reports on serverErr.
Failed(l) ==
    /\ listeners[l].state \in {"returned", "exited"}
    /\ Reports(l, listeners[l].err)

C14_OtherListenerIsShutDown ==
    (Returned /\ selected = "serverErr") =>
        /\ \A l \in ListenerNames : ~Accepting(l) /\ ~AboutToListen(l)
        /\ \A l \in ListenerNames :
              (listeners[l].state # "none" /\ ~Failed(l)) => listeners[l].inShutdown

\* The port texts of the model that are integers, with their values.
ValidPorts ==
    (<<"8", "0", "8", "0">> :> 8080) @@ (<<"0", "8", "0", "8", "0">> :> 8080)
    @@ (<<"9", "0", "9", "0">> :> 9090) @@ (<<"+", "9", "0", "9", "0">> :> 9090)

MetricsEnabled == environ.exporter = "prometheus"
MetricsPortConfigured == environ.port \in DOMAIN ValidPorts

\* ListenAndServe is past its call of CreatePrometheusServer.
MetricsDecided ==
    \/ co \in {"StartPrometheus", "StartMain", "select", "Shutdown", "deferred"}
    \/ Returned /\ ~envVars.isNil

\* C15: CreatePrometheusServer returns a separate metrics server exactly when
\* metrics export is enabled, a metrics port is configured and that port
\* differs from the main port; when the port equals the main port it returns
\* no server and /metrics is on the main router; when metrics export is not
\* enabled it returns no server and the router has what it had before.
C15_SeparateMetricsServer ==
    MetricsDecided =>
        /\ ~promServer.isNil <=>
              /\ MetricsEnabled
              /\ MetricsPortConfigured
              /\ ValidPorts[environ.port] # envVars.Port
        /\ ~promServer.isNil => promServer.Addr = ValidPorts[environ.port]
        /\ (MetricsEnabled /\ MetricsPortConfigured
                /\ ValidPorts[environ.port] = envVars.Port) =>
              /\ promServer.isNil
              /\ router.routes = {pathHealthz, pathMetrics}
        /\ ~MetricsEnabled =>
              /\ promServer.isNil
              /\ router = RouterHandle(NewRouter(envVars), pathHealthz)

C15_Witness ==
    /\ co = "select"
    /\ MetricsEnabled
    /\ environ.port = <<"0", "8", "0", "8", "0">>
    /\ promServer.isNil
    /\ pathMetrics \in router.routes

\* C16: when metrics export is enabled and the metrics port value is present
\* and not an integer, ListenAndServe returns the "invalid prometheus port"
\* error carrying that value, with no metrics server and no listener started.
C16_InvalidMetricsPort ==
    (MetricsEnabled /\ environ.port # <<>> /\ ~MetricsPortConfigured
         /\ ~envVars.isNil /\ co \notin {"Created", "ListenAndServe", "healthz",
                                         "CreatePrometheusServer"}) =>
        /\ Returned
        /\ errorsIs(ret, errPrometheusInvalidPort)
        /\ ret.text = environ.port
        /\ promServer.isNil
        /\ NoListenerStarted

C16_Witness ==
    /\ Returned
    /\ errorsIs(ret, errPrometheusInvalidPort)
    /\ environ.port = <<"9", "0", "9", "0", " ">>
    /\ NoListenerStarted

\* C17: on the cancellation path an error returned by the shutdown call of
\* the main listener or of the metrics listener is logged as a warning and is
\* not the value ListenAndServe returns.
C17_ShutdownErrorsAreWarnings ==
    (Returned /\ selected = "ctx.Done") =>
        \A l \in ListenerNames :
            listeners[l].shutdownErr # nil =>
                /\ \E i \in 1..Len(warnings) : warnings[i] = listeners[l].shutdownErr
                /\ ret # listeners[l].shutdownErr

\* The lifecycle state of the spec, read off the position of ListenAndServe.
Phase ==
    CASE co = "Created" -> "Created"
      [] co \in {"ListenAndServe", "healthz", "CreatePrometheusServer",
                 "StartPrometheus"} -> "Configuring"
      [] co = "StartMain" -> IF NoListenerStarted THEN "Configuring" ELSE "Serving"
      [] co = "select" -> "Serving"
      [] co \in {"Shutdown", "deferred"} -> "ShuttingDown"
      [] co = "returned" -> "Stopped"

PhaseRank(p) ==
    CASE p = "Created" -> 0
      [] p = "Configuring" -> 1
      [] p = "Serving" -> 2
      [] p = "ShuttingDown" -> 3
      [] p = "Stopped" -> 4

LifecycleStep ==
    /\ PhaseRank(Phase') >= PhaseRank(Phase)
    /\ (Phase' = "ShuttingDown" /\ Phase # "ShuttingDown") => Phase = "Serving"
    /\ \A l \in ListenerNames :
          Accepting(l)' => (router.middlewares # <<>> /\ Phase' # "Created")
    /\ Phase' = "Stopped" =>
          \A l \in ListenerNames : ~Accepting(l)' /\ ~AboutToListen(l)'

\* C18: the lifecycle only moves forward along Created, Configuring, Serving,
\* ShuttingDown, Stopped: no listener serves before the router's middleware is
\* installed, ShuttingDown is entered only from Serving, and in Stopped no
\* listener is serving or about to serve.
C18_Lifecycle == [][LifecycleStep]_vars

(***************************************************************************)
(* Further properties of Decompress.                                       *)
(***************************************************************************)
WroteResponse == IsServed /\ cfg.mw = "Decompress" /\ resp # NoResponse

\* C23: every response Decompress writes itself (415, 400) is a JSON
\* problem-detail body whose status field is the HTTP status and whose
\* instance field is the request's URL path.
C23_ProblemDetailBody ==
    WroteResponse =>
        /\ resp.status \in {StatusBadRequest, StatusUnsupportedMediaType}
        /\ resp.contentType = "application/json"
        /\ resp.body.status = resp.status
        /\ resp.body.instance = req.path

C23_Witness ==
    /\ WroteResponse
    /\ resp.status = StatusBadRequest
    /\ req.path = "/v1/items"
    /\ resp.body.instance = "/v1/items"

\* C24: when Decompress matched a supported encoding and invoked the handler
\* on a body that arrives whole, the handler either reads the decompressed
\* content to its end without an error, or gets no decoded byte at all: it
\* never gets a decoded prefix followed by a decoding error.
C24_NoPartialDecode ==
    (Decodable /\ ~req.body.src.fail /\ handler.calls = 1
       /\ handler.body.kind = "decoder") =>
        (handler.read.err = NoErr \/ handler.read.data = <<>>)

\* C26: with two or more Content-Encoding values the body is read into
\* memory once, and every decode attempt starts at offset 0 of the buffered
\* body, whatever was tried or skipped before it.
C26_BufferedOnceEachAttemptAtStart ==
    (Decodable /\ Len(req.encodings) >= 2) =>
        /\ log.buffered = 1
        /\ \A a \in 1..Len(log.attempts) : log.attempts[a].off = 0
        /\ handler.calls = 1 => handler.body.src = Source(req.body.src.bytes, FALSE)

C26_Witness ==
    /\ Decodable
    /\ req.encodings = <<EncGzip, EncDeflate>>
    /\ Len(log.attempts) = 2
    /\ log.attempts[2].off = 0
    /\ handler.calls = 1

\* C29: Decompress ends in exactly one of two outcomes: the handler is
\* invoked exactly once and nothing is written, or one error response (400
\* or 415) is written and the handler is never invoked.
C29_ExactlyOneOutcome ==
    (IsServed /\ cfg.mw = "Decompress") =>
        \/ handler.calls = 1 /\ resp = NoResponse
        \/ /\ handler.calls = 0
           /\ resp.status \in {StatusBadRequest, StatusUnsupportedMediaType}

C29_Witness ==
    /\ IsServed
    /\ cfg.mw = "Decompress"
    /\ handler.calls = 0
    /\ resp.status = StatusUnsupportedMediaType

(***************************************************************************)
(* Further properties of the bootstrap.                                    *)
(***************************************************************************)
\* C27: once ListenAndServe has started its listeners it leaves its select,
\* and returns, only through a case that is ready: with the error a failed
\* listener reported, or after the context was cancelled.
C27_ReturnsOnlyOnErrorOrCancel ==
    (~NoListenerStarted /\ co \in {"Shutdown", "deferred", "returned"}) =>
        \/ /\ selected = "serverErr"
           /\ \E k \in ListenerNames : Failed(k) /\ ret = listeners[k].err
        \/ /\ selected = "ctx.Done"
           /\ ctxDone

C27_Witness ==
    /\ Returned
    /\ selected = "ctx.Done"
    /\ ctxDone
    /\ \A l \in ListenerNames : ~Failed(l)
    /\ listeners["main"].state = "exited"

\* The metrics endpoint belongs on the main router.
MetricsCoLocated ==
    /\ MetricsEnabled
    /\ MetricsPortConfigured
    /\ ValidPorts[environ.port] = envVars.Port

RouterStep ==
    /\ ~NoListenerStarted' =>
          /\ pathHealthz \in router'.routes
          /\ MetricsCoLocated => pathMetrics \in router'.routes
    /\ ~NoListenerStarted => router' = router

\* C28: /healthz, and /metrics when the metrics port is the main port, are on
\* the main router when the first listener goroutine is started, and the
\* router is not modified from then on.
C28_RoutesBeforeListeners == [][RouterStep]_vars

C28_Witness ==
    /\ co = "select"
    /\ listeners["main"].state = "serving"
    /\ router.routes = {pathHealthz, pathMetrics}

\* The goroutine of l is blocked in serverErr <- err.
BlockedOnSend(l) ==
    /\ listeners[l].state = "returned"
    /\ Reports(l, listeners[l].err)
    /\ Len(serverErr) >= serverErrCapacity

\* C30: after ListenAndServe has returned no listener goroutine is blocked
\* on sending to serverErr (nothing receives from it any more, so a goroutine
\* blocked then is blocked forever).
C30_NoBlockedSender ==
    Returned => \A l \in ListenerNames : ~BlockedOnSend(l)

(***************************************************************************)
(* Properties of DecodeRequestBody.                                        *)
(***************************************************************************)
DecodedBody == IsServed /\ cfg.mw = "DecodeRequestBody"

\* The request has no body.
MissingBody == req.body.kind \in {"nil", "NoBody"}

\* text is one JSON object, from its first token to its last.
IsJSONObject(text) ==
    /\ Len(text) >= 2
    /\ text[1] = "{"
    /\ text[Len(text)] = "}"
    /\ Len(text) = 2 \/ Len(text) % 2 = 1
    /\ \A i \in 2..(Len(text) - 1) :
          IF i % 2 = 0 THEN text[i] \in Members ELSE text[i] = ","

\* text is valid JSON for the target type: an object whose name, if it has
\* one, is a string.
IsValidJSONForTarget(text) ==
    /\ IsJSONObject(text)
    /\ \A i \in 1..Len(text) : text[i] # MemberNumber

\* The value JSON text of the target type stands for (the last name wins,
\* and all names are "test").
ValueOf(text) == Input(IF \E i \in 1..Len(text) : text[i] = MemberString THEN "test" ELSE "")

\* C25: with a missing body, or a body that is not valid JSON for the target
\* type, DecodeRequestBody returns (nil, false) and writes a 422; otherwise
\* it returns the decoded value with true and writes nothing.
C25_DecodeOr422 ==
    DecodedBody =>
        IF MissingBody \/ ~IsValidJSONForTarget(req.body.src.bytes)
        THEN /\ handler.input = NilInput
             /\ ~handler.ok
             /\ resp.status = StatusUnprocessableEntity
        ELSE /\ handler.ok
             /\ handler.input = ValueOf(req.body.src.bytes)
             /\ resp = NoResponse

====
